---- MODULE Spec2Model ----
(***************************************************************************)
(* Model of the video decoder wrapper of src/codec/lib/video_decode.cpp:   *)
(* creation and release of a VideoDecoder, the parser-fed send_packet loop *)
(* and read_frame with its hardware-to-software transfer.                  *)
(*                                                                         *)
(* The FFmpeg calls are the environment.  Each is modelled by its          *)
(* documented contract at the line that calls it:                          *)
(*  - av_parser_parse2 takes an int buffer size, consumes between 1 and    *)
(*    buf_size bytes of a non-empty buffer, buffers a partial access unit  *)
(*    and hands out a unit when its last byte has been consumed; with      *)
(*    buf_size 0 it consumes nothing and flushes what it buffered;         *)
(*  - avcodec_send_packet accepts a unit, or answers EAGAIN while decoded  *)
(*    output has not been read;                                            *)
(*  - avcodec_receive_frame unrefs the frame and hands out the oldest      *)
(*    decoded picture, if any;                                             *)
(*  - av_hwframe_transfer_data allocates the destination when it is clean  *)
(*    and otherwise copies into the buffers the destination already has.   *)
(* Integer widths are scaled down: int has IntBits bits, size_t one more.  *)
(*                                                                         *)
(* The module also models the capture wrapper of src/devices/lib/devices.c *)
(* (CaptureSpec): init and set_video_output_callback over the state of the *)
(* OBS library, which is the environment there.                            *)
(*                                                                         *)
(* AppSpec models MirrorImplementation of src/examples/desktop/main.cpp:   *)
(* the key handlers CreateMirrorSender, CreateMirrorReceiver and Close,    *)
(* and the callbacks the sessions make into the Render sink.  A handler is *)
(* one step.  The sessions themselves (mirror::MirrorSender and            *)
(* mirror::MirrorReceiver) are not part of these sources; they follow the  *)
(* specification: a session is Active until it ends, it ends by close(),   *)
(* by a sink callback returning false or by a failure, close() is          *)
(* idempotent, on_close is issued when it ends, from within close() when   *)
(* close() ends it, and a session that has ended issues no callback.       *)
(*                                                                         *)
(* RenderSpec models the threads that share the Render object of main.cpp: *)
(* the detached presentation thread of the constructor, a session thread   *)
(* inside OnVideoFrame and a thread inside Clear, one step per access to   *)
(* the shared members and per lock operation.                               *)
(*                                                                         *)
(* ArgsSpec models the argument parsing of src/examples/cpp/src/common.h:  *)
(* finds, one step per loop iteration, on strings that are sequences of    *)
(* characters with size_t arithmetic of SizeBits bits (FindsSpec), and     *)
(* parse_argv, one step per path, over the token lists finds hands to      *)
(* get_key_value (ArgsSpec).                                               *)
(***************************************************************************)
EXTENDS Integers, Sequences, FiniteSets, TLC

\* ---------------------------------------------------------------- bounds
IntBits == 3
MaxAUs == 2
MaxAuLen == 3
MaxPending == 2
MaxCaptured == 2
MaxSessions == 3
MaxFrames == 1
MaxInput == 4
MaxArgs == 2
MaxDevices == 51

\* devices.c line 133: the slots of the array get_device_list allocates
ListSlots == 50

SizeBits == IntBits + 1
IntMod == 2 ^ IntBits
SizeMod == 2 ^ SizeBits

\* picture geometries a stream may carry (width, height)
Dims == { [w |-> 1, h |-> 2], [w |-> 3, h |-> 4] }

\* sizes passed along with a null buffer
NullSizes == { 0, 1, SizeMod - 1 }

\* the decoder names a caller may pass
CodecNames == { "h264", "h264_qsv" }

\* the VideoInfo values a caller may pass to init
VideoInfos == { [ fps |-> f, width |-> 4, height |-> 2, format |-> "NV12" ] :
                  f \in { 30, 60 } }

\* no video info: the video output has not been set up
NoVideoInfo == [ fps |-> 0, width |-> 0, height |-> 0, format |-> "NONE" ]

\* the callbacks and user contexts a caller may register
Procs == { "proc1", "proc2" }
Contexts == { "ctx1", "ctx2" }

VARIABLES
    win32,          \* build configuration: WIN32 defined
    decoder,        \* the codec name of the last create
    passed,         \* the steps of the last create that ran and succeeded
    state,          \* "none" | "live" | "null" (create returned nullptr) | "released"
    codec,          \* the VideoDecoder struct: which members are non-null
    acquired,       \* resources acquired by the last create
    relLog,         \* resources freed by the last release, in order
    hw_refcount,    \* reference count of the hardware device buffer
    served,         \* frames the decoder had returned when it was released
    carry,          \* bytes of a partial access unit held by the parser
    packet_size,    \* codec->packet->size
    fed,            \* access units completed by the parser so far
    pending,        \* decoded pictures not yet received
    frame,          \* codec->frame
    sw_frame,       \* codec->sw_frame
    output_frame,   \* *codec->output_frame
    out,            \* pictures returned by read_frame, by content
    drained,        \* the last read_frame since the last send returned nullptr
    disciplined,    \* every send so far began after a drain
    split,          \* non-empty sends that began inside the first unit (capped at 2)
    result,         \* what the last read_frame returned: "none" | "nullptr" | "output_frame"
    xfer,           \* the transfer of the last read_frame: "none" | "ok" | "failed"
    pc,             \* "idle" | "loop" | "ub"
    buf_null,       \* the buf argument of the current/last send is nullptr
    size,           \* remaining size (size_t)
    origSize,       \* size argument of the current/last send
    consumed,       \* buf - original buf
    invoked,        \* parser calls of the current/last send: 0, odd (1), even (2)
    ret             \* "none" | "true" | "false": result of the last send

VARIABLES
    obs,            \* the OBS library: core started, video output, modules, video info
    init_ret,       \* result of the last init: << >> before any call, else << r >>
    init_calls,     \* the library calls the last init made, in order
    sinks,          \* the raw video callbacks installed: (proc, ctx) pairs
    delivered,      \* the callbacks the last captured frame was handed to
    captured        \* frames the video output has produced

VARIABLES
    _sender,        \* std::optional<MirrorSender>: 0 (nullopt) or a session
    _receiver,      \* std::optional<MirrorReceiver>: 0 (nullopt) or a session
    sessions,       \* the session objects created so far
    capture_running,\* DeviceManagerService is started
    double_start,   \* Start() was called while the service was started
    stops,          \* calls of DeviceManagerService::Stop()
    IsRender,       \* Render::IsRender
    title           \* the title last given to SetTitle

VARIABLES
    _mutex,         \* Render::_mutex: "free" or the thread that holds it
    _sdl_texture,   \* the texture exists (the pointer is not null)
    _frame_rect,    \* Render::_frame_rect (w, h)
    _runing,        \* Render::_runing
    render_alive,   \* the Render object has not been deleted
    present_pc,     \* presentation thread: "while" | "if" | "lock" | "render" | "sleep" | "quit" | "done"
    sink_pc,        \* OnVideoFrame: "idle" | "texture" | "rect" | "lock" | "update"
    sink_frame,     \* the rect of the frame OnVideoFrame was called with
    clear_pc        \* Clear: "idle" | "lock" | "clear"

VARIABLES
    input,          \* finds: the input string, shortened by erase
    delimiter,      \* finds: the delimiter
    iter,           \* finds: size_t iter
    tokens,         \* finds: the vector of tokens
    orig,           \* the input finds was called with
    finds_pc,       \* "idle" | "loop"
    OPTIONS,        \* the options struct of common.h
    argv,           \* parse_argv: the token lists of the paths not yet handled
    parse_pc,       \* "idle" | "loop"
    parse_ret       \* "none" | "0" | "-1" | "invalid_argument" (thrown)

VARIABLES
    manager,        \* the DeviceManager: its state and its three handle fields
    mgr_ret,        \* what create_device_manager returned last
    handles,        \* per kind: the object created for this manager and the
                    \* number of times it was released
    foreign,        \* the kinds released through a handle never assigned
    list,           \* the DeviceList get_device_list returned last
    request         \* the arguments and the environment of that call

lifeVars == <<win32, decoder, passed, state, codec, acquired, relLog, hw_refcount,
              served>>
dataVars == <<carry, packet_size, fed, pending, frame, sw_frame, output_frame>>
ghostVars == <<out, drained, disciplined, split, result, xfer>>
callVars == <<pc, buf_null, size, origSize, consumed, invoked, ret>>
decoderVars == <<lifeVars, dataVars, ghostVars, callVars>>
captureVars == <<obs, init_ret, init_calls, sinks, delivered, captured>>
appVars == <<_sender, _receiver, sessions, capture_running, double_start, stops,
             IsRender, title>>
renderVars == <<_mutex, _sdl_texture, _frame_rect, _runing, render_alive,
                present_pc, sink_pc, sink_frame, clear_pc>>
argsVars == <<input, delimiter, iter, tokens, orig, finds_pc, OPTIONS, argv,
              parse_pc, parse_ret>>
deviceVars == <<manager, mgr_ret, handles, foreign, list, request>>
extraVars == <<argsVars, deviceVars>>
otherVars == <<captureVars, appVars, renderVars, extraVars>>
notRenderVars == <<decoderVars, captureVars, appVars, extraVars>>
vars == <<decoderVars, captureVars, appVars, renderVars, extraVars>>

\* ------------------------------------------------------------ structures
Members == { "context", "ctx_hw_ref", "hw_device_ctx", "parser", "packet",
             "frame", "sw_frame", "output_frame", "struct" }

\* new VideoDecoder{}: every member value-initialised to null
NullCodec == [ m \in Members |-> FALSE ]

NoFrame == [ id |-> 0, w |-> 0, h |-> 0, fmt |-> "NONE",
             linesize |-> <<0, 0>>, data |-> <<"null", "null">> ]

\* new VideoFrame{}: format RGBA (enumerator 0), hardware false, zeros
NewVideoFrame == [ format |-> "RGBA", hardware |-> FALSE, width |-> 0, height |-> 0,
                   linesize |-> <<0, 0>>, data |-> <<"null", "null">> ]

\* ------------------------------------------------------- create / release
\* the fallible steps of codec_create_video_decoder, in program order
CreateSteps == << "find", "context", "hwdevice", "open", "is_open",
                  "parser", "packet", "frame", "sw_frame" >>

StepSet == { CreateSteps[i] : i \in 1..Len(CreateSteps) }

\* lines 45-46: the device is acquired only on WIN32 for the decoder "h264"
HwApplicable(w, name) == w /\ name = "h264"

\* the steps whose result the code tests before it goes on
Checked(s) == TRUE

\* the first step that fails and is tested, "none" when the code runs to line 107;
\* ok[s] is the library's answer at step s, hw tells whether the device step runs
FirstFailure(ok, hw) ==
    LET bad == { i \in 1..Len(CreateSteps) :
                   /\ ~ok[CreateSteps[i]]
                   /\ Checked(CreateSteps[i])
                   /\ (CreateSteps[i] = "hwdevice" => hw) }
    IN  IF bad = {} THEN "none"
        ELSE CreateSteps[CHOOSE i \in bad : \A j \in bad : i <= j]

StepIdx(s) == CHOOSE i \in 1..Len(CreateSteps) : CreateSteps[i] = s

\* step s was executed and succeeded when the code stops at failAt
Passed(s, ok, hw, failAt) ==
    /\ ok[s]
    /\ (s = "hwdevice" => hw)
    /\ (failAt = "none" \/ StepIdx(s) < StepIdx(failAt))

\* the members of the struct when the code stops at failAt
CreatedMembers(ok, hw, failAt) ==
    [ m \in Members |->
        CASE m = "struct"        -> TRUE
          [] m = "output_frame"  -> TRUE
          [] m = "context"       -> Passed("context", ok, hw, failAt)
          [] m = "hw_device_ctx" -> Passed("hwdevice", ok, hw, failAt)
          [] m = "ctx_hw_ref"    -> Passed("hwdevice", ok, hw, failAt)
          [] m = "parser"        -> Passed("parser", ok, hw, failAt)
          [] m = "packet"        -> Passed("packet", ok, hw, failAt)
          [] m = "frame"         -> Passed("frame", ok, hw, failAt)
          [] m = "sw_frame"      -> Passed("sw_frame", ok, hw, failAt) ]

Opt(c, m) == IF c[m] THEN <<m>> ELSE <<>>

\* a release that forgets the scratch packet
ReleaseLog_LeakPacket(c) ==
    (IF c["context"] THEN Opt(c, "ctx_hw_ref") \o << "context" >> ELSE <<>>)
      \o Opt(c, "parser") \o Opt(c, "frame")
      \o Opt(c, "sw_frame") \o Opt(c, "hw_device_ctx")
      \o << "output_frame", "struct" >>

\* the frees of codec_release_video_decoder, in program order;
\* avcodec_free_context drops the context's device reference with the context
ReleaseLog(c) ==
    (IF c["context"] THEN Opt(c, "ctx_hw_ref") \o << "context" >> ELSE <<>>)
      \o Opt(c, "parser") \o Opt(c, "packet") \o Opt(c, "frame")
      \o Opt(c, "sw_frame") \o Opt(c, "hw_device_ctx")
      \o << "output_frame", "struct" >>

\* a release that keeps the decoder's own device reference
ReleasedRefs_KeepsOwnRef(c) == IF c["context"] /\ c["ctx_hw_ref"] THEN 1 ELSE 0

\* device references dropped by a release
ReleasedRefs(c) == (IF c["context"] /\ c["ctx_hw_ref"] THEN 1 ELSE 0)
                   + (IF c["hw_device_ctx"] THEN 1 ELSE 0)

\* device references taken by a create: the device buffer and av_buffer_ref
AcquiredRefs(c) == (IF c["hw_device_ctx"] THEN 1 ELSE 0)
                   + (IF c["ctx_hw_ref"] THEN 1 ELSE 0)

FreshData ==
    /\ carry = 0 /\ packet_size = 0 /\ fed = 0 /\ pending = <<>>
    /\ frame = NoFrame /\ sw_frame = NoFrame /\ output_frame = NewVideoFrame
    /\ out = <<>> /\ drained = TRUE
    /\ disciplined = TRUE /\ split = 0
    /\ result = "none" /\ xfer = "none"
    /\ pc = "idle" /\ buf_null = FALSE /\ size = 0 /\ origSize = 0
    /\ consumed = 0 /\ invoked = 0 /\ ret = "none"

\* a new decoder starts with an empty parser, no pictures and no call made
ResetData ==
    /\ carry' = 0 /\ packet_size' = 0 /\ fed' = 0 /\ pending' = <<>>
    /\ frame' = NoFrame /\ sw_frame' = NoFrame /\ output_frame' = NewVideoFrame
    /\ out' = <<>> /\ drained' = TRUE
    /\ disciplined' = TRUE /\ split' = 0
    /\ result' = "none" /\ xfer' = "none"
    /\ pc' = "idle" /\ buf_null' = FALSE /\ size' = 0 /\ origSize' = 0
    /\ consumed' = 0 /\ invoked' = 0 /\ ret' = "none"

\* the capture backend before any call: obs_initialized() is false
CaptureDown ==
    /\ obs = [ core |-> FALSE, video |-> FALSE, modules |-> FALSE,
              info |-> NoVideoInfo ]
    /\ init_ret = << >>
    /\ init_calls = <<>>
    /\ sinks = {}
    /\ delivered = {}
    /\ captured = 0

\* a session slot no create has used yet
NoSession == [ kind |-> "none", status |-> "unused", closes |-> 0, late_ops |-> 0,
               on_close |-> 0, frames |-> 0 ]

\* MirrorImplementation after its constructor (lines 259-284, 364-366)
AppIdle ==
    /\ _sender = 0
    /\ _receiver = 0
    /\ sessions = [ i \in 1..MaxSessions |-> NoSession ]
    /\ capture_running = FALSE
    /\ double_start = FALSE
    /\ stops = 0
    /\ IsRender = TRUE
    /\ title = ""

\* no rectangle: the members are zero
NoRect == [ w |-> 0, h |-> 0 ]

\* Render after its constructor (lines 105-157): the presentation thread is
\* started and detached, no texture exists, _frame_rect is not initialised
RenderStarted ==
    /\ _mutex = "free"
    /\ _sdl_texture = FALSE
    /\ _frame_rect \in Dims \cup { NoRect }
    /\ _runing = TRUE
    /\ render_alive = TRUE
    /\ present_pc = "while"
    /\ sink_pc = "idle"
    /\ sink_frame = NoRect
    /\ clear_pc = "idle"

\* the Render object in the specifications that do not run its threads
RenderIdle == RenderStarted /\ _frame_rect = NoRect

\* lines 15-32: the options before any parse_argv, no finds call made
ArgsIdle ==
    /\ input = <<>>
    /\ delimiter = <<>>
    /\ iter = 0
    /\ tokens = <<>>
    /\ orig = <<>>
    /\ finds_pc = "idle"
    /\ OPTIONS = [ strategy |-> "STRATEGY_DIRECT", address |-> "127.0.0.1:8080",
                   fps |-> 30 ]
    /\ argv = <<>>
    /\ parse_pc = "idle"
    /\ parse_ret = "none"

HandleKinds == { "scene", "video_source", "video_scene_item" }

NoManager == [ st |-> "none", scene |-> "NULL", video_source |-> "NULL",
               video_scene_item |-> "NULL" ]
NoHandles == [ k \in HandleKinds |-> [ created |-> FALSE, released |-> 0 ] ]
NoList == [ size |-> 0, devices |-> <<>>, overrun |-> 0 ]
NoRequest == [ count |-> 0, type |-> "none", failed |-> {} ]

\* no device manager created, no list asked for
DeviceIdle ==
    /\ manager = NoManager
    /\ mgr_ret = "none"
    /\ handles = NoHandles
    /\ foreign = {}
    /\ list = NoList
    /\ request = NoRequest

ExtraIdle == ArgsIdle /\ DeviceIdle

Init ==
    /\ CaptureDown
    /\ AppIdle
    /\ RenderIdle
    /\ ExtraIdle
    /\ win32 \in BOOLEAN
    /\ decoder = "h264"
    /\ passed = {}
    /\ state = "none"
    /\ codec = NullCodec
    /\ acquired = {}
    /\ relLog = <<>>
    /\ hw_refcount = 0
    /\ served = 0
    /\ FreshData

codec_create_video_decoder ==
    /\ state \in { "none", "null", "released" }
    /\ pc = "idle"
    /\ \E name \in CodecNames, ok \in [ StepSet -> BOOLEAN ] :
          LET hw == HwApplicable(win32, name)
              failAt == FirstFailure(ok, hw)
              c  == CreatedMembers(ok, hw, failAt)
          IN  /\ decoder' = name
              /\ passed' = { st \in StepSet : Passed(st, ok, hw, failAt) }
              /\ acquired' = { m \in Members : c[m] }
              /\ IF failAt = "none"
                   THEN /\ state' = "live"
                        /\ codec' = c
                        /\ relLog' = <<>>
                        /\ hw_refcount' = AcquiredRefs(c)
                   ELSE /\ state' = "null"
                        /\ codec' = NullCodec
                        /\ relLog' = ReleaseLog(c)
                        /\ hw_refcount' = AcquiredRefs(c) - ReleasedRefs(c)
    /\ win32' = win32
    /\ served' = 0
    /\ ResetData
    /\ UNCHANGED otherVars

codec_release_video_decoder ==
    /\ state = "live"
    /\ pc = "idle"
    /\ state' = "released"
    /\ relLog' = ReleaseLog(codec)
    /\ hw_refcount' = hw_refcount - ReleasedRefs(codec)
    /\ codec' = NullCodec
    /\ served' = Len(out)
    /\ UNCHANGED <<win32, decoder, passed, acquired, otherVars>>
    /\ ResetData

\* a decoder operation (send_packet, read_frame, release) called with the
\* pointer of a released decoder: no function tests the state of the struct,
\* each dereferences the deleted struct (lines 112, 150-157, 183)
call_after_release ==
    /\ state = "released"
    /\ pc = "idle"
    /\ pc' = "ub"
    /\ UNCHANGED <<lifeVars, dataVars, ghostVars, buf_null, size, origSize,
                   consumed, invoked, ret, otherVars>>

\* ------------------------------------------------------------ send_packet
Min(a, b) == IF a < b THEN a ELSE b

\* conversion of the size_t argument to the int parameter buf_size
ToInt(n) == LET m == n % IntMod
            IN  IF m >= IntMod \div 2 THEN m - IntMod ELSE m

\* bytes the rest of the stream may still hold: the units not yet completed
\* and one trailing partial unit
Room(f, c) == (MaxAUs - f) * MaxAuLen + (MaxAuLen - 1) - c

\* results of av_parser_parse2 for buf_size n > 0 or n = 0, c bytes carried
\* over and f units completed: bytes used, size of the packet handed out,
\* new carry-over, and whether the packet is a complete access unit
ParserResults(n, c, f) ==
    IF n = 0
      THEN { [ len |-> 0, psize |-> c, carry |-> 0, unit |-> FALSE ] }
      ELSE { [ len |-> k, psize |-> c + k, carry |-> 0, unit |-> TRUE ] :
               k \in { j \in 1..n : /\ c + j <= MaxAuLen
                                    /\ f < MaxAUs
                                    /\ n - j <= Room(f + 1, 0) } }
           \cup
           (IF c + n <= MaxAuLen - 1
              THEN { [ len |-> n, psize |-> 0, carry |-> c + n, unit |-> FALSE ] }
              ELSE {})

\* answers of avcodec_send_packet with p decoded pictures unread
SendOutcomes(unit, p) ==
    IF ~unit THEN { "error", "nothing" }
    ELSE IF p = 0 THEN { "ok" }
    ELSE IF p < MaxPending THEN { "ok", "again" }
    ELSE { "again" }

\* row stride the library allocates for a picture of width w (rows are aligned)
LineSize(w) == 2 * ((w + 1) \div 2)

\* pictures the decoder may produce for unit number id
DecodedFrames(id, hwdev) ==
    { [ id |-> id, w |-> d.w, h |-> d.h, fmt |-> "NV12",
        linesize |-> << LineSize(d.w), LineSize(d.w) >>,
        data |-> << "frame", "frame" >> ] : d \in Dims }
    \cup
    (IF hwdev
       THEN { [ id |-> id, w |-> d.w, h |-> d.h, fmt |-> "DXVA2_VLD",
                linesize |-> << 0, 0 >>, data |-> << "gpu", "gpu" >> ] : d \in Dims }
       ELSE {})

\* the null check of line 150 left out
IsNull_NoCheck(b) == FALSE

\* line 150: the null check
IsNull(b) == b

\* line 155: the loop condition
LoopCond(sz) == sz # 0

\* line 169: the packet is submitted only when the parser handed one out
HasPacket(psize) == psize # 0

send_packet_call ==
    /\ state = "live"
    /\ pc = "idle"
    /\ \E b \in BOOLEAN, sz \in 0..(SizeMod - 1) :
         /\ IF b THEN sz \in NullSizes ELSE sz <= Room(fed, carry)
         /\ buf_null' = b
         /\ origSize' = sz
         /\ size' = sz
         /\ consumed' = 0
         /\ invoked' = 0
         /\ IF IsNull(b)
              THEN /\ pc' = "idle"
                   /\ ret' = "true"
              ELSE /\ pc' = "loop"
                   /\ ret' = "none"
         /\ LET empty == b \/ sz = 0
            IN  /\ split' = IF empty \/ fed > 0 THEN split ELSE Min(split + 1, 2)
                /\ disciplined' = (disciplined /\ (drained \/ empty))
                /\ drained' = (drained /\ empty)
    /\ result' = "none"
    /\ xfer' = "none"
    /\ UNCHANGED <<lifeVars, dataVars, out, otherVars>>

send_packet_loop ==
    /\ pc = "loop"
    /\ LoopCond(size)
    /\ UNCHANGED otherVars
    /\ IF buf_null \/ ToInt(size) < 0
         THEN \* a null buffer or a negative length handed to the parser
              /\ pc' = "ub"
              /\ UNCHANGED <<lifeVars, dataVars, ghostVars, buf_null, size,
                             origSize, consumed, invoked, ret>>
         ELSE \E r \in ParserResults(ToInt(size), carry, fed) :
              /\ carry' = r.carry
              /\ packet_size' = r.psize
              /\ fed' = IF r.unit THEN fed + 1 ELSE fed
              /\ size' = (size - r.len) % SizeMod
              /\ consumed' = consumed + r.len
              /\ invoked' = (IF invoked = 1 THEN 2 ELSE 1)
              /\ IF HasPacket(r.psize)
                   THEN \E o \in SendOutcomes(r.unit, Len(pending)) :
                        /\ IF o = "ok"
                             THEN \E f \in DecodedFrames(fed + 1, codec["ctx_hw_ref"]) :
                                    pending' = Append(pending, f)
                             ELSE pending' = pending
                        /\ IF o \in { "error", "again" }
                             THEN pc' = "idle" /\ ret' = "false"
                             ELSE pc' = "loop" /\ ret' = ret
                   ELSE /\ pending' = pending
                        /\ pc' = "loop"
                        /\ ret' = ret
              /\ UNCHANGED <<lifeVars, frame, sw_frame, output_frame,
                             ghostVars, buf_null, origSize>>

send_packet_return ==
    /\ pc = "loop"
    /\ ~LoopCond(size)
    /\ pc' = "idle"
    /\ ret' = "true"
    /\ UNCHANGED <<lifeVars, dataVars, ghostVars, buf_null, size, origSize,
                   consumed, invoked, otherVars>>

\* -------------------------------------------------------------- read_frame
\* the arguments, locals and result of the finished send_packet are gone
EndOfCall ==
    /\ pc' = "idle" /\ buf_null' = FALSE /\ size' = 0 /\ origSize' = 0
    /\ consumed' = 0 /\ invoked' = 0 /\ ret' = "none"

\* av_hwframe_transfer_data(dst, src) on success: a clean dst is allocated
\* for the picture, a dst that has buffers keeps them and receives the pixels
Transfer(dst, src) ==
    IF dst.fmt = "NONE"
      THEN [ id |-> src.id, w |-> src.w, h |-> src.h, fmt |-> "NV12",
             linesize |-> << LineSize(src.w), LineSize(src.w) >>,
             data |-> << "sw", "sw" >> ]
      ELSE [ dst EXCEPT !.id = src.id ]

\* the planes always taken from the decoded frame
PlaneSource_AlwaysFrame(f, sw) == f

\* lines 199-201: the frame the planes are taken from
PlaneSource(f, sw) == IF f.fmt = "DXVA2_VLD" THEN sw ELSE f

\* an output frame whose plane pointers are not set
FillOutput_NoPlanes(o, f, src) ==
    [ o EXCEPT !.width = f.w, !.height = f.h,
               !.linesize = << src.linesize[1], src.linesize[2] >> ]

\* lines 188-189 and 203-207: the members of the output frame that are written
FillOutput(o, f, src) ==
    [ o EXCEPT !.width = f.w, !.height = f.h,
               !.linesize = << src.linesize[1], src.linesize[2] >>,
               !.data = << src.data[1], src.data[2] >> ]

codec_video_decoder_read_frame ==
    /\ state = "live"
    /\ pc = "idle"
    /\ IF pending = <<>>
         THEN \* avcodec_receive_frame != 0
              /\ frame' = NoFrame
              /\ drained' = TRUE
              /\ result' = "nullptr"
              /\ xfer' = "none"
              /\ UNCHANGED <<pending, sw_frame, output_frame, out>>
         ELSE LET f == Head(pending)
              IN  /\ frame' = f
                  /\ pending' = Tail(pending)
                  /\ \E ok \in BOOLEAN :
                       IF f.fmt = "DXVA2_VLD" /\ ~ok
                         THEN \* transfer failed: width and height already written
                              /\ sw_frame' = sw_frame
                              /\ output_frame' = [ output_frame EXCEPT
                                                     !.width = f.w, !.height = f.h ]
                              /\ drained' = TRUE
                              /\ out' = out
                              /\ result' = "nullptr"
                              /\ xfer' = "failed"
                         ELSE /\ sw_frame' = IF f.fmt = "DXVA2_VLD"
                                               THEN Transfer(sw_frame, f)
                                               ELSE sw_frame
                              /\ output_frame' =
                                   FillOutput(output_frame, f, PlaneSource(f, sw_frame'))
                              /\ drained' = FALSE
                              /\ out' = Append(out, PlaneSource(f, sw_frame').id)
                              /\ result' = "output_frame"
                              /\ xfer' = (IF f.fmt = "DXVA2_VLD" THEN "ok" ELSE "none")
    /\ EndOfCall
    /\ UNCHANGED <<lifeVars, carry, packet_size, fed, disciplined, split,
                   otherVars>>

Next ==
    \/ codec_create_video_decoder
    \/ codec_release_video_decoder
    \/ call_after_release
    \/ send_packet_call
    \/ send_packet_loop
    \/ send_packet_return
    \/ codec_video_decoder_read_frame

Spec == Init /\ [][Next]_vars

FairSpec == Spec /\ WF_vars(send_packet_loop) /\ WF_vars(send_packet_return)

\* ------------------------------------------------------- capture: devices.c
\* the decoder is not in use
DecoderUnused ==
    /\ win32 = TRUE
    /\ decoder = "h264"
    /\ passed = {}
    /\ state = "none"
    /\ codec = NullCodec
    /\ acquired = {}
    /\ relLog = <<>>
    /\ hw_refcount = 0
    /\ served = 0
    /\ FreshData

\* an init that does not look at obs_initialized()
AlreadyInitialized_NoCheck(o) == FALSE

\* line 12: obs_initialized()
AlreadyInitialized(o) == o.core

\* lines 10-45: init; startup_ok and reset_ok are the answers of obs_startup
\* and obs_reset_video
init ==
    \E info \in VideoInfos, startup_ok \in BOOLEAN, reset_ok \in BOOLEAN :
       /\ IF AlreadyInitialized(obs)
            THEN /\ init_ret' = << -1 >>
                 /\ init_calls' = << "obs_initialized" >>
                 /\ obs' = obs
            ELSE IF ~startup_ok
            THEN /\ init_ret' = << -2 >>
                 /\ init_calls' = << "obs_initialized", "obs_startup" >>
                 /\ obs' = obs
            ELSE IF ~reset_ok
            THEN /\ init_ret' = << -3 >>
                 /\ init_calls' = << "obs_initialized", "obs_startup",
                                     "obs_reset_video" >>
                 /\ obs' = [ obs EXCEPT !.core = TRUE ]
            ELSE /\ init_ret' = << 0 >>
                 /\ init_calls' = << "obs_initialized", "obs_startup",
                                     "obs_reset_video", "obs_load_all_modules",
                                     "obs_post_load_modules" >>
                 /\ obs' = [ core |-> TRUE, video |-> TRUE, modules |-> TRUE,
                             info |-> info ]
       /\ UNCHANGED <<sinks, delivered, captured, decoderVars, appVars, renderVars, extraVars>>

\* lines 47-50: obs_add_raw_video_callback connects (proc, ctx) to the video
\* output unless that very pair is connected already
set_video_output_callback ==
    /\ obs.video
    /\ \E proc \in Procs, ctx \in Contexts :
         sinks' = sinks \cup { << proc, ctx >> }
    /\ UNCHANGED <<obs, init_ret, init_calls, delivered, captured, decoderVars,
                   appVars, renderVars, extraVars>>

\* the video output produces a frame and calls every connected callback
video_output_frame ==
    /\ obs.video
    /\ captured < MaxCaptured
    /\ captured' = captured + 1
    /\ delivered' = sinks
    /\ UNCHANGED <<obs, init_ret, init_calls, sinks, decoderVars, appVars,
                   renderVars, extraVars>>

CaptureInit == DecoderUnused /\ CaptureDown /\ AppIdle /\ RenderIdle /\ ExtraIdle

CaptureNext ==
    \/ init
    \/ set_video_output_callback
    \/ video_output_frame

CaptureSpec == CaptureInit /\ [][CaptureNext]_vars

\* ------------------------------------------- desktop example: main.cpp
\* the slots no create has used
FreeSlots == { i \in 1..MaxSessions : sessions[i].status = "unused" }

\* CreateSender / CreateReceiver hand out a session object of their own
NewSession(k) == [ NoSession EXCEPT !.kind = k, !.status = "active" ]

\* a session that ends without telling its sink when it is closed explicitly
NotifiesOnEnd_NotOnClose(cause) == cause # "close"

\* on_close is issued whatever ends the session: "close", "false", "failure"
NotifiesOnEnd(cause) == TRUE

\* the session ss[id] ends
EndSession(ss, id, cause) ==
    [ ss EXCEPT ![id].status = "closed",
                ![id].on_close = IF NotifiesOnEnd(cause) THEN @ + 1 ELSE @ ]

\* Close() of a session object: ends an active session, otherwise nothing
SessionClose(ss, id) ==
    IF ss[id].status = "active"
      THEN [ EndSession(ss, id, "close") EXCEPT ![id].closes = @ + 1 ]
      ELSE [ ss EXCEPT ![id].closes = @ + 1, ![id].late_ops = @ + 1 ]

\* a closed callback that leaves the optional as it is
ClosedCallback_Keeps(opt) == opt

\* lines 278-283: the closed callback resets the optional it is applied to
ClosedCallback(opt) == 0

\* a Close that stops the capture service whether or not a sender exists
StopOnClose_Always(has_sender) == TRUE

\* lines 345-350: Stop() is called inside the branch of an existing sender
StopOnClose(has_sender) == has_sender

\* lines 218-223 with 278-283: Render::OnClose runs the closed callback,
\* then SetTitle("") and Clear()
OnClose ==
    /\ _sender' = ClosedCallback(_sender)
    /\ _receiver' = ClosedCallback(_receiver)
    /\ title' = ""

\* lines 293-320; found: GetDevices returned a device, created: CreateSender
\* returned a sender
CreateMirrorSender ==
    /\ IF _sender # 0
         THEN UNCHANGED appVars
         ELSE \E found \in BOOLEAN, created \in BOOLEAN :
              /\ IsRender' = FALSE
              /\ capture_running' = TRUE
              /\ double_start' = (double_start \/ capture_running)
              /\ IF found /\ created /\ FreeSlots # {}
                   THEN LET id == CHOOSE i \in FreeSlots : \A j \in FreeSlots : i <= j
                        IN  /\ sessions' = [ sessions EXCEPT ![id] = NewSession("sender") ]
                            /\ _sender' = id
                            /\ title' = "sender"
                   ELSE UNCHANGED <<sessions, _sender, title>>
              /\ UNCHANGED <<_receiver, stops>>
    /\ UNCHANGED <<decoderVars, captureVars,
                      renderVars, extraVars>>

\* lines 322-341
CreateMirrorReceiver ==
    /\ IF _receiver # 0
         THEN UNCHANGED appVars
         ELSE \E created \in BOOLEAN :
              /\ IsRender' = TRUE
              /\ IF created /\ FreeSlots # {}
                   THEN LET id == CHOOSE i \in FreeSlots : \A j \in FreeSlots : i <= j
                        IN  /\ sessions' = [ sessions EXCEPT ![id] = NewSession("receiver") ]
                            /\ _receiver' = id
                            /\ title' = "receiver"
                   ELSE UNCHANGED <<sessions, _receiver, title>>
              /\ UNCHANGED <<_sender, capture_running, double_start, stops>>
    /\ UNCHANGED <<decoderVars, captureVars,
                      renderVars, extraVars>>

\* lines 343-360; the Close() of an active sender issues on_close, whose
\* handler resets both optionals before the receiver branch is reached
Close ==
    /\ LET has_sender == _sender # 0
           ss1 == IF has_sender THEN SessionClose(sessions, _sender) ELSE sessions
           notified == has_sender /\ ss1[_sender].on_close > sessions[_sender].on_close
           recv == IF notified THEN ClosedCallback(_receiver) ELSE _receiver
           ss2 == IF recv # 0 THEN SessionClose(ss1, recv) ELSE ss1
       IN  /\ sessions' = ss2
           /\ stops' = IF StopOnClose(has_sender) THEN stops + 1 ELSE stops
           /\ capture_running' = IF StopOnClose(has_sender) THEN FALSE
                                                            ELSE capture_running
    /\ _sender' = 0
    /\ _receiver' = 0
    /\ title' = ""
    /\ UNCHANGED <<double_start, IsRender, decoderVars, captureVars,
                      renderVars, extraVars>>

\* lines 177-206: the session hands a video frame to the sink, which
\* returns true
on_video_frame ==
    \E id \in 1..MaxSessions :
       /\ sessions[id].status = "active"
       /\ sessions[id].frames < MaxFrames
       /\ sessions' = [ sessions EXCEPT ![id].frames = @ + 1 ]
       /\ UNCHANGED <<_sender, _receiver, capture_running, double_start, stops,
                      IsRender, title, decoderVars, captureVars,
                      renderVars, extraVars>>

\* lines 208-216: the sink returns false when it renders and SDL_QueueAudio
\* fails; the session then ends and issues on_close
on_audio_frame ==
    \E id \in 1..MaxSessions, queued \in BOOLEAN :
       /\ sessions[id].status = "active"
       /\ sessions[id].frames < MaxFrames \/ (IsRender /\ ~queued)
       /\ IF IsRender /\ ~queued
            THEN /\ sessions' = EndSession(sessions, id, "false")
                 /\ IF sessions'[id].on_close > sessions[id].on_close
                      THEN OnClose
                      ELSE UNCHANGED <<_sender, _receiver, title>>
            ELSE /\ sessions' = [ sessions EXCEPT ![id].frames = @ + 1 ]
                 /\ UNCHANGED <<_sender, _receiver, title>>
       /\ UNCHANGED <<capture_running, double_start, stops, IsRender,
                      decoderVars, captureVars,
                      renderVars, extraVars>>

\* an encode or decode failure ends the session, which issues on_close
session_failure ==
    \E id \in 1..MaxSessions :
       /\ sessions[id].status = "active"
       /\ sessions' = EndSession(sessions, id, "failure")
       /\ IF sessions'[id].on_close > sessions[id].on_close
            THEN OnClose
            ELSE UNCHANGED <<_sender, _receiver, title>>
       /\ UNCHANGED <<capture_running, double_start, stops, IsRender,
                      decoderVars, captureVars,
                      renderVars, extraVars>>

AppInit == DecoderUnused /\ CaptureDown /\ AppIdle /\ RenderIdle /\ ExtraIdle

AppNext ==
    \/ CreateMirrorSender
    \/ CreateMirrorReceiver
    \/ Close
    \/ on_video_frame
    \/ on_audio_frame
    \/ session_failure

AppSpec == AppInit /\ [][AppNext]_vars

\* ------------------------------------------------ Render threads: main.cpp
\* line 138: while (_runing); once the object is deleted the flag is read
\* from freed memory and may have any value
present_while ==
    /\ present_pc = "while"
    /\ \E flag \in (IF render_alive THEN { _runing } ELSE BOOLEAN) :
         present_pc' = IF flag THEN "if" ELSE "quit"
    /\ UNCHANGED <<_mutex, _sdl_texture, _frame_rect, _runing, render_alive,
                   sink_pc, sink_frame, clear_pc,
                   notRenderVars>>

\* line 140: if (_sdl_texture != nullptr), read before the lock is taken
present_if ==
    /\ present_pc = "if"
    /\ present_pc' = IF _sdl_texture THEN "lock" ELSE "sleep"
    /\ UNCHANGED <<_mutex, _sdl_texture, _frame_rect, _runing, render_alive,
                   sink_pc, sink_frame, clear_pc,
                   notRenderVars>>

\* line 142: std::lock_guard guard(_mutex)
present_lock ==
    /\ present_pc = "lock"
    /\ _mutex = "free"
    /\ _mutex' = "present"
    /\ present_pc' = "render"
    /\ UNCHANGED <<_sdl_texture, _frame_rect, _runing, render_alive,
                   sink_pc, sink_frame, clear_pc,
                   notRenderVars>>

\* lines 143-150: the texture is copied to the renderer, the guard ends
present_render ==
    /\ present_pc = "render"
    /\ _mutex' = "free"
    /\ present_pc' = "sleep"
    /\ UNCHANGED <<_sdl_texture, _frame_rect, _runing, render_alive,
                   sink_pc, sink_frame, clear_pc,
                   notRenderVars>>

\* line 152: Sleep(1000 / 30)
present_sleep ==
    /\ present_pc = "sleep"
    /\ present_pc' = "while"
    /\ UNCHANGED <<_mutex, _sdl_texture, _frame_rect, _runing, render_alive,
                   sink_pc, sink_frame, clear_pc,
                   notRenderVars>>

\* line 155: SDL_Quit()
present_quit ==
    /\ present_pc = "quit"
    /\ present_pc' = "done"
    /\ UNCHANGED <<_mutex, _sdl_texture, _frame_rect, _runing, render_alive,
                   sink_pc, sink_frame, clear_pc,
                   notRenderVars>>

\* line 177: a session calls OnVideoFrame with a frame
OnVideoFrame_call ==
    /\ render_alive
    /\ sink_pc = "idle"
    /\ \E d \in Dims : sink_frame' = d
    /\ sink_pc' = "texture"
    /\ UNCHANGED <<_mutex, _sdl_texture, _frame_rect, _runing, render_alive,
                   present_pc, clear_pc,
                   notRenderVars>>

\* lines 184-191: the texture is created when there is none
OnVideoFrame_texture ==
    /\ sink_pc = "texture"
    /\ _sdl_texture' = TRUE
    /\ sink_pc' = "rect"
    /\ UNCHANGED <<_mutex, _frame_rect, _runing, render_alive, present_pc,
                   sink_frame, clear_pc,
                   notRenderVars>>

\* lines 193-196: _frame_rect is written
OnVideoFrame_rect ==
    /\ sink_pc = "rect"
    /\ _frame_rect' = sink_frame
    /\ sink_pc' = "lock"
    /\ UNCHANGED <<_mutex, _sdl_texture, _runing, render_alive, present_pc,
                   sink_frame, clear_pc,
                   notRenderVars>>

\* line 198: std::lock_guard guard(_mutex)
OnVideoFrame_lock ==
    /\ sink_pc = "lock"
    /\ _mutex = "free"
    /\ _mutex' = "sink"
    /\ sink_pc' = "update"
    /\ UNCHANGED <<_sdl_texture, _frame_rect, _runing, render_alive, present_pc,
                   sink_frame, clear_pc,
                   notRenderVars>>

\* lines 199-205: SDL_UpdateNVTexture, return true, the guard ends
OnVideoFrame_update ==
    /\ sink_pc = "update"
    /\ _mutex' = "free"
    /\ sink_pc' = "idle"
    /\ sink_frame' = NoRect
    /\ UNCHANGED <<_sdl_texture, _frame_rect, _runing, render_alive, present_pc,
                   clear_pc,
                   notRenderVars>>

\* line 225: Clear is called (from Close or OnClose)
Clear_call ==
    /\ render_alive
    /\ clear_pc = "idle"
    /\ clear_pc' = "lock"
    /\ UNCHANGED <<_mutex, _sdl_texture, _frame_rect, _runing, render_alive,
                   present_pc, sink_pc, sink_frame,
                   notRenderVars>>

\* line 227: std::lock_guard guard(_mutex)
Clear_lock ==
    /\ clear_pc = "lock"
    /\ _mutex = "free"
    /\ _mutex' = "clear"
    /\ clear_pc' = "clear"
    /\ UNCHANGED <<_sdl_texture, _frame_rect, _runing, render_alive, present_pc,
                   sink_pc, sink_frame,
                   notRenderVars>>

\* lines 229-239: _frame_rect is read, the texture overwritten, the guard ends
Clear_update ==
    /\ clear_pc = "clear"
    /\ _mutex' = "free"
    /\ clear_pc' = "idle"
    /\ UNCHANGED <<_sdl_texture, _frame_rect, _runing, render_alive, present_pc,
                   sink_pc, sink_frame,
                   notRenderVars>>

\* lines 159-162 with 289: delete _render runs ~Render, which clears _runing
Render_delete ==
    /\ render_alive
    /\ clear_pc = "idle"
    /\ _runing' = FALSE
    /\ render_alive' = FALSE
    /\ UNCHANGED <<_mutex, _sdl_texture, _frame_rect, present_pc, sink_pc,
                   sink_frame, clear_pc,
                   notRenderVars>>

RenderInit == DecoderUnused /\ CaptureDown /\ AppIdle /\ RenderStarted /\ ExtraIdle

RenderNext ==
    \/ present_while
    \/ present_if
    \/ present_lock
    \/ present_render
    \/ present_sleep
    \/ present_quit
    \/ OnVideoFrame_call
    \/ OnVideoFrame_texture
    \/ OnVideoFrame_rect
    \/ OnVideoFrame_lock
    \/ OnVideoFrame_update
    \/ Clear_call
    \/ Clear_lock
    \/ Clear_update
    \/ Render_delete

RenderSpec == RenderInit /\ [][RenderNext]_vars

\* ------------------------------------------------- arguments: common.h
\* the characters of the strings given to finds
Alphabet == { "a", "b", "," }

\* the delimiters given to finds
Delimiters == { << "," >>, << ",", "," >> }

\* the strings of at most n characters
Strings(n) == UNION { [ 1..k -> Alphabet ] : k \in 0..n }

\* std::string::npos, the largest size_t
npos == SizeMod - 1

\* d occurs in s at position p (counted from 0)
OccursAt(s, d, p) ==
    /\ p + Len(d) <= Len(s)
    /\ SubSeq(s, p + 1, p + Len(d)) = d

\* s.find(d): the first position of d in s, npos when there is none
Find(s, d) ==
    LET ps == { p \in 0..Len(s) : OccursAt(s, d, p) }
    IN  IF ps = {} THEN npos ELSE CHOOSE p \in ps : \A q \in ps : p <= q

\* s.substr(0, n)
Substr(s, n) == SubSeq(s, 1, Min(n, Len(s)))

\* s.erase(0, n)
Erase(s, n) == SubSeq(s, Min(n, Len(s)) + 1, Len(s))

\* line 110: while (iter < input.size())
FindsLoopCond(it, s) == it < Len(s)

\* line 106: finds is called
finds_call ==
    /\ finds_pc = "idle"
    /\ \E s \in Strings(MaxInput), d \in Delimiters :
         /\ input' = s
         /\ orig' = s
         /\ delimiter' = d
    /\ iter' = 0
    /\ tokens' = <<>>
    /\ finds_pc' = "loop"
    /\ UNCHANGED <<OPTIONS, argv, parse_pc, parse_ret, deviceVars, decoderVars, captureVars, appVars,
                   renderVars>>

\* lines 110-115: one iteration; iter + delimiter.length() is a size_t sum
finds_loop ==
    /\ finds_pc = "loop"
    /\ FindsLoopCond(iter, input)
    /\ iter' = Find(input, delimiter)
    /\ tokens' = Append(tokens, Substr(input, iter'))
    /\ input' = Erase(input, (iter' + Len(delimiter)) % SizeMod)
    /\ UNCHANGED <<delimiter, orig, finds_pc, OPTIONS, argv, parse_pc, parse_ret,
                   decoderVars, captureVars, appVars, renderVars, deviceVars>>

\* lines 117-122: what is left of the input is one more token
finds_return ==
    /\ finds_pc = "loop"
    /\ ~FindsLoopCond(iter, input)
    /\ tokens' = IF Len(input) > 0 THEN Append(tokens, input) ELSE tokens
    /\ finds_pc' = "idle"
    /\ UNCHANGED <<input, delimiter, iter, orig, OPTIONS, argv, parse_pc, parse_ret,
                   decoderVars, captureVars, appVars, renderVars, deviceVars>>

\* the values of HylaranaStrategy
Strategies == { "STRATEGY_DIRECT", "STRATEGY_RELAY", "STRATEGY_MULTICAST" }

\* the keys and values the token lists of a path may hold
Keys == { "--address", "--strategy", "--fps", "--help" }
Values == { "direct", "relay", "multicast", "Direct", "60" }

\* the token lists finds(path, "=") may return: two tokens or fewer
Paths == { << k, v >> : k \in Keys, v \in Values } \cup { << "a" >> }

\* a conversion that falls back to the default for an unknown name
strategy_from_str_Default(value) ==
    CASE value = "direct"    -> "STRATEGY_DIRECT"
      [] value = "relay"     -> "STRATEGY_RELAY"
      [] value = "multicast" -> "STRATEGY_MULTICAST"
      [] OTHER               -> "STRATEGY_DIRECT"

\* lines 86-104; "invalid_argument" stands for the exception thrown
strategy_from_str(value) ==
    CASE value = "direct"    -> "STRATEGY_DIRECT"
      [] value = "relay"     -> "STRATEGY_RELAY"
      [] value = "multicast" -> "STRATEGY_MULTICAST"
      [] OTHER               -> "invalid_argument"

\* std::stoi on the values above: only "60" is a number
stoi(value) == IF value = "60" THEN 60 ELSE -1
stoi_throws(value) == value # "60"

\* lines 141-182: one path applied to the options o; the result is the new
\* options and how the loop goes on: "next", "-1" or "invalid_argument"
ApplyPath(o, path) ==
    IF Len(path) < 2
      THEN [ o |-> o, go |-> "invalid_argument" ]
    ELSE LET key == path[1]
             value == path[2]
         IN CASE key = "--address" ->
                   [ o |-> [ o EXCEPT !.address = value ], go |-> "next" ]
              [] key = "--strategy" ->
                   IF strategy_from_str(value) = "invalid_argument"
                     THEN [ o |-> o, go |-> "invalid_argument" ]
                     ELSE [ o |-> [ o EXCEPT !.strategy = strategy_from_str(value) ],
                            go |-> "next" ]
              [] key = "--fps" ->
                   IF stoi_throws(value)
                     THEN [ o |-> o, go |-> "invalid_argument" ]
                     ELSE [ o |-> [ o EXCEPT !.fps = stoi(value) ], go |-> "next" ]
              [] key = "--help" -> [ o |-> o, go |-> "-1" ]
              [] OTHER -> [ o |-> o, go |-> "next" ]

\* lines 137-139: parse_argv is called; finds(args, " ") gives the paths
parse_argv_call ==
    /\ parse_pc = "idle"
    /\ \E paths \in UNION { [ 1..k -> Paths ] : k \in 0..MaxArgs } :
         argv' = paths
    /\ parse_pc' = "loop"
    /\ parse_ret' = "none"
    /\ UNCHANGED <<input, delimiter, iter, tokens, orig, finds_pc, OPTIONS,
                   decoderVars, captureVars, appVars, renderVars, deviceVars>>

\* lines 139-183: one iteration of the loop over the paths
parse_argv_path ==
    /\ parse_pc = "loop"
    /\ argv # <<>>
    /\ LET r == ApplyPath(OPTIONS, Head(argv))
       IN  /\ OPTIONS' = r.o
           /\ IF r.go = "next"
                THEN /\ argv' = Tail(argv)
                     /\ UNCHANGED <<parse_pc, parse_ret>>
                ELSE /\ argv' = <<>>
                     /\ parse_pc' = "idle"
                     /\ parse_ret' = r.go
    /\ UNCHANGED <<input, delimiter, iter, tokens, orig, finds_pc,
                   decoderVars, captureVars, appVars, renderVars, deviceVars>>

\* line 185: return 0
parse_argv_return ==
    /\ parse_pc = "loop"
    /\ argv = <<>>
    /\ parse_pc' = "idle"
    /\ parse_ret' = "0"
    /\ UNCHANGED <<input, delimiter, iter, tokens, orig, finds_pc, OPTIONS, argv,
                   decoderVars, captureVars, appVars, renderVars, deviceVars>>

ArgsInit == DecoderUnused /\ CaptureDown /\ AppIdle /\ RenderIdle /\ ExtraIdle

ArgsNext ==
    \/ parse_argv_call
    \/ parse_argv_path
    \/ parse_argv_return

ArgsSpec == ArgsInit /\ [][ArgsNext]_vars

FindsNext ==
    \/ finds_call
    \/ finds_loop
    \/ finds_return

FindsSpec == ArgsInit /\ [][FindsNext]_vars

\* ---------------------------------------------------------------------
\* devices.c: the device manager and the device list
\* ---------------------------------------------------------------------

\* line 54: malloc does not clear the block, a field read before it is
\* assigned holds any value
Uninitialised == { "NULL", "garbage" }

\* line 54: the manager as malloc returns it, its fields holding junk
Allocated(junk) ==
    [ st |-> "live", scene |-> junk["scene"],
      video_source |-> junk["video_source"],
      video_scene_item |-> junk["video_scene_item"] ]

\* lines 59, 66, 77: what an obs create call stores in the field
Created(ok) == IF ok THEN "own" ELSE "NULL"

\* lines 94-107: each field that is not NULL is handed to its release call;
\* a field holding the object created for this manager drops that object
ReleaseHandles(h, m) ==
    [ k \in HandleKinds |->
        IF m[k] = "own" THEN [ h[k] EXCEPT !.released = @ + 1 ] ELSE h[k] ]

\* lines 94-107: the release calls made on a value that was never assigned
ForeignReleased(m) == { k \in HandleKinds : m[k] = "garbage" }

\* the objects a run of create_device_manager created up to its return
HandlesOf(m) ==
    [ k \in HandleKinds |-> [ created |-> (m[k] = "own"), released |-> 0 ] ]

\* lines 52-90: create_device_manager
create_device_manager ==
    /\ manager.st # "live"
    /\ \E malloc_ok, scene_ok, source_ok, item_ok \in BOOLEAN,
          junk \in [ HandleKinds -> Uninitialised ] :
         LET m1 == [ Allocated(junk) EXCEPT !.scene = Created(scene_ok) ]
             m2 == [ m1 EXCEPT !.video_source = Created(source_ok) ]
             m3 == [ m2 EXCEPT !.video_scene_item = Created(item_ok) ]
             last == IF ~scene_ok THEN m1 ELSE IF ~source_ok THEN m2 ELSE m3
             own == [ k \in HandleKinds |->
                        IF last[k] = "own" THEN "own" ELSE "NULL" ]
         IN  IF ~malloc_ok
               THEN /\ manager' = NoManager
                    /\ mgr_ret' = "NULL"
                    /\ handles' = NoHandles
                    /\ foreign' = {}
               ELSE IF scene_ok /\ source_ok /\ item_ok
                 THEN /\ manager' = m3
                      /\ mgr_ret' = "manager"
                      /\ handles' = HandlesOf(m3)
                      /\ foreign' = {}
                 ELSE /\ manager' = [ last EXCEPT !.st = "freed" ]
                      /\ mgr_ret' = "NULL"
                      /\ handles' = ReleaseHandles(HandlesOf(own), last)
                      /\ foreign' = ForeignReleased(last)
    /\ UNCHANGED <<list, request, decoderVars, captureVars, appVars, renderVars,
                   argsVars>>

\* lines 92-110: device_manager_release, called by the owner of a manager
device_manager_release ==
    /\ manager.st = "live"
    /\ manager' = [ manager EXCEPT !.st = "freed" ]
    /\ mgr_ret' = "none"
    /\ handles' = ReleaseHandles(handles, manager)
    /\ foreign' = foreign \cup ForeignReleased(manager)
    /\ UNCHANGED <<list, request, decoderVars, captureVars, appVars, renderVars,
                   argsVars>>

\* line 129: the DeviceType values a caller asks for
DeviceTypes == { "video", "audio" }

\* lines 147-149: the description of item i of the property
Description(type, i) == [ type |-> type, id |-> i, name |-> i ]

\* line 144: the items whose description could not be allocated; none, the
\* first one or the last one
AllocFailures(n) == { {} } \cup { { i } : i \in { 0, n - 1 } \cap (0 .. (n - 1)) }

\* lines 142-153: the descriptions the loop stores, in item order
Written(n, type, failed) ==
    LET items == [ i \in 1 .. n |-> i - 1 ]
        kept == SelectSeq(items, LAMBDA i : i \notin failed)
    IN  [ j \in 1 .. Len(kept) |-> Description(type, kept[j]) ]

\* lines 129-160: get_device_list; the array of line 133 has ListSlots
\* slots, the stores of line 150 past it are counted in overrun
get_device_list ==
    /\ manager.st = "live"
    /\ \E n \in 0 .. MaxDevices, type \in DeviceTypes :
         \E failed \in AllocFailures(n) :
           LET w == Written(n, type, failed)
           IN  /\ list' = [ size |-> Len(w),
                            devices |-> SubSeq(w, 1, Min(Len(w), ListSlots)),
                            overrun |-> Len(w) - Min(Len(w), ListSlots) ]
               /\ request' = [ count |-> n, type |-> type, failed |-> failed ]
    /\ UNCHANGED <<manager, mgr_ret, handles, foreign, decoderVars, captureVars,
                   appVars, renderVars, argsVars>>

DeviceInit == DecoderUnused /\ CaptureDown /\ AppIdle /\ RenderIdle /\ ExtraIdle

DeviceNext ==
    \/ create_device_manager
    \/ device_manager_release
    \/ get_device_list

DeviceSpec == DeviceInit /\ [][DeviceNext]_vars

\* the fields of s separated by d, found from left to right
RECURSIVE Fields(_, _)
Fields(s, d) ==
    IF Find(s, d) = npos
      THEN << s >>
      ELSE << SubSeq(s, 1, Find(s, d)) >>
             \o Fields(SubSeq(s, Find(s, d) + Len(d) + 1, Len(s)), d)

\* ------------------------------------------------------------ type check
TypeOK ==
    /\ state \in { "none", "live", "null", "released" }
    /\ pc \in { "idle", "loop", "ub" }
    /\ size \in 0..(SizeMod - 1)
    /\ carry \in 0..(MaxAuLen - 1)
    /\ fed \in 0..MaxAUs
    /\ Len(pending) <= MaxPending

\* ------------------------------------------------------------------ claims
\* read_frame has just returned the output frame (not nullptr)
Returned == Len(out') = Len(out) + 1

\* position of resource r in the release log, 0 when it was not released
Pos(r) == IF \E i \in 1..Len(relLog) : relLog[i] = r
            THEN CHOOSE i \in 1..Len(relLog) : relLog[i] = r
            ELSE 0

Times(r) == Cardinality({ i \in 1..Len(relLog) : relLog[i] = r })

\* C1: send_packet terminates for every non-null buffer, and when it returns
\* success the remaining size is 0 and every byte of the input was consumed.
C1_LoopsUntilExhausted ==
    /\ []((pc = "idle" /\ ret = "true" /\ ~buf_null) => (size = 0 /\ consumed = origSize))
    /\ ((pc = "loop") ~> (pc # "loop"))

\* C2: fed only a proper prefix of the first access unit, send_packet succeeds
\* and read_frame yields no frame; once the remaining bytes have been sent by a
\* later call, reading until none yields exactly one frame, the first unit's.
C2_CarryOver ==
    /\ (pc = "idle" /\ ret # "none" /\ ~buf_null /\ fed = 0
          /\ origSize \in 1..(MaxAuLen - 1))
         => (ret = "true" /\ carry > 0 /\ pending = <<>>)
    /\ (fed = 0) => (out = <<>>)
    /\ (pc = "idle" /\ split = 2 /\ fed = 1 /\ carry = 0 /\ drained /\ ret # "false")
         => (out = <<1>>)

\* C3: when the caller drains read_frame until none after each send_packet,
\* every send_packet succeeds and the frames read are exactly the access units
\* fed, in feed order, whatever the cut of the stream into calls.
C3_OneFramePerUnit ==
    disciplined =>
      /\ ret # "false"
      /\ (pc = "idle" /\ drained) => (out = [ i \in 1..fed |-> i ])

\* C4: send_packet with a null buffer or with size 0 returns success without
\* invoking parser or decoder and leaves the decoder state unchanged.
C4_NullOrEmptyIsNoOp ==
    [][ ((send_packet_call \/ send_packet_loop \/ send_packet_return)
           /\ (buf_null' \/ origSize' = 0))
        => /\ UNCHANGED <<carry, packet_size, fed, pending, frame, sw_frame,
                          output_frame, out, codec, state>>
           /\ invoked' = 0
           /\ pc' \in { "idle", "loop" }
           /\ (pc' = "loop") => (size' = 0)
           /\ (pc' = "idle") => (ret' = "true") ]_vars

C4_Witness ==
    /\ pc = "idle" /\ ret = "true" /\ ~buf_null /\ origSize = 0
    /\ carry > 0 /\ pending # <<>>

\* C5: a returned frame has CPU-readable planes; a GPU-resident picture has
\* been transferred to the software frame and planes and line sizes are the
\* software frame's.
C5_CpuReadablePlanes ==
    [][ Returned =>
          /\ \A i \in 1..2 : output_frame'.data[i] \in { "frame", "sw" }
          /\ (frame'.fmt = "DXVA2_VLD") =>
               /\ sw_frame'.id = frame'.id
               /\ output_frame'.data = sw_frame'.data
               /\ output_frame'.data = << "sw", "sw" >>
               /\ output_frame'.linesize = sw_frame'.linesize ]_vars

C5_Witness ==
    /\ out # <<>> /\ frame.fmt = "DXVA2_VLD" /\ ~drained
    /\ output_frame.data = << "sw", "sw" >>

\* C6: the hardware flag of a returned frame is true exactly when the decoded
\* picture was GPU-resident.
C6_HardwareFlagPreserved ==
    [][ Returned => (output_frame'.hardware = (frame'.fmt = "DXVA2_VLD")) ]_vars

\* C7: a returned frame reports the width and height of the picture just
\* decoded and the pixel layout tag NV12.
C7_DimensionsAndLayout ==
    [][ Returned =>
          /\ output_frame'.width = frame'.w
          /\ output_frame'.height = frame'.h
          /\ output_frame'.format = "NV12" ]_vars

\* C8: in a returned frame both line sizes are at least the width.
C8_LineSizeCoversWidth ==
    [][ Returned =>
          /\ output_frame'.linesize[1] >= output_frame'.width
          /\ output_frame'.linesize[2] >= output_frame'.width ]_vars

\* C9: create returns a decoder only if every step succeeded; when it returns
\* null every resource acquired was released exactly once and nothing else was.
C9_CreateAllOrNothing ==
    /\ (state = "live") =>
         /\ passed = { st \in StepSet :
                         st = "hwdevice" => HwApplicable(win32, decoder) }
         /\ \A m \in acquired : codec[m]
    /\ (state = "null") =>
         /\ passed # StepSet
         /\ codec = NullCodec
         /\ \A m \in Members : Times(m) = (IF m \in acquired THEN 1 ELSE 0)

C9_Witness ==
    /\ state = "null" /\ { "parser", "packet", "hw_device_ctx" } \subseteq acquired
    /\ Len(relLog) >= 5

\* C10: on release the device reference, the scratch packet and frames and
\* the parser are released before the codec context is freed.
C10_ContextFreedLast ==
    (state \in { "released", "null" } /\ Pos("context") > 0) =>
      \A r \in { "hw_device_ctx", "parser", "packet", "frame", "sw_frame" } :
         Pos(r) > 0 => Pos(r) < Pos("context")

\* C11: a released decoder, or a create that returned null, holds no
\* reference on the hardware device: the count is back at its value before
\* the create (0), every holder of decoded pictures (context, frame) has been
\* freed, and the count never drops below that value.
C11_HwRefsReleased ==
    /\ hw_refcount >= 0
    /\ (state = "live") =>
         (hw_refcount = IF HwApplicable(win32, decoder) THEN 2 ELSE 0)
    /\ (state \in { "none", "null", "released" }) =>
         /\ hw_refcount = 0
         /\ \A m \in { "context", "frame", "hw_device_ctx" } :
              Times(m) = (IF m \in acquired THEN 1 ELSE 0)

C11_Witness ==
    /\ state = "released" /\ served >= 2
    /\ { "hw_device_ctx", "ctx_hw_ref" } \subseteq acquired
    /\ hw_refcount = 0

\* C12: a read_frame whose hardware-to-software transfer failed does not
\* return what a read_frame with no frame ready returns (nullptr).
C12_TransferFailureReported == (xfer = "failed") => (result # "nullptr")

\* C13: an operation issued on a released decoder is rejected and changes
\* nothing: the released decoder is never executed on.
C13_IllegalTransitionRejected == (state = "released") => (pc = "idle")

\* C20: every successful read_frame returns the decoder's one output frame,
\* allocates nothing, leaves the plane pointers aliasing the scratch frame or
\* the software scratch frame; output frame and scratch frames are unchanged
\* by every step that is not a read_frame, a create or a release.
C20_BorrowedScratch ==
    [][ /\ Returned =>
             /\ result' = "output_frame"
             /\ UNCHANGED <<codec, acquired>>
             /\ codec["output_frame"] /\ Times("output_frame") = 0
             /\ output_frame'.data = PlaneSource(frame', sw_frame').data
             /\ output_frame'.data \in { << "frame", "frame" >>, << "sw", "sw" >> }
        /\ (send_packet_call \/ send_packet_loop \/ send_packet_return)
             => UNCHANGED <<output_frame, frame, sw_frame, codec>> ]_vars

C20_Witness ==
    /\ Len(out) = 2 /\ result = "output_frame"
    /\ output_frame.data = << "sw", "sw" >>

\* C14: init called while the capture backend is initialized returns -1,
\* makes no startup, video reset or module loading call and leaves the
\* backend unchanged.
C14_ReentrantInitRejected ==
    [][ (init /\ obs.core) =>
          /\ init_ret' = << -1 >>
          /\ \A i \in 1..Len(init_calls') :
                init_calls'[i] \notin { "obs_startup", "obs_reset_video",
                                        "obs_load_all_modules",
                                        "obs_post_load_modules" }
          /\ UNCHANGED <<obs, sinks>> ]_vars

C14_Witness ==
    /\ init_ret = << -1 >> /\ obs.core /\ obs.video /\ obs.modules
    /\ init_calls = << "obs_initialized" >>

\* C15: after any sequence of set_video_output_callback calls at most one
\* sink is installed and a captured frame is handed to exactly one callback.
C15_SingleVideoSink ==
    /\ Cardinality(sinks) <= 1
    /\ (captured > 0) => (Cardinality(delivered) <= 1)

C19_AccessUnderMutex ==
    /\ (sink_pc \in { "texture", "rect", "update" }) => (_mutex = "sink")
    /\ (clear_pc = "clear") => (_mutex = "clear")
    /\ (present_pc \in { "if", "render" }) => (_mutex = "present")

\* C21: strategy_from_str maps exactly "direct", "relay" and "multicast" to
\* the three strategies and throws for every other string; the stored
\* strategy is always one of the three, and a --strategy path with an
\* invalid value ends parse_argv with the exception and leaves the stored
\* strategy as it was.
C21_StrategyClosedSet ==
    /\ [](OPTIONS.strategy \in Strategies)
    /\ [](\A v \in Values :
            (v \in { "direct", "relay", "multicast" })
              <=> (strategy_from_str(v) \in Strategies))
    /\ [](\A v \in Values :
            (v \notin { "direct", "relay", "multicast" })
              <=> (strategy_from_str(v) = "invalid_argument"))
    /\ [](strategy_from_str("direct") = "STRATEGY_DIRECT"
            /\ strategy_from_str("relay") = "STRATEGY_RELAY"
            /\ strategy_from_str("multicast") = "STRATEGY_MULTICAST")
    /\ [][ (parse_argv_path /\ Len(Head(argv)) = 2
             /\ Head(argv)[1] = "--strategy"
             /\ Head(argv)[2] \notin { "direct", "relay", "multicast" })
           => /\ OPTIONS' = OPTIONS
              /\ parse_pc' = "idle"
              /\ parse_ret' = "invalid_argument" ]_vars

C21_Witness ==
    /\ OPTIONS.strategy = "STRATEGY_MULTICAST"
    /\ OPTIONS.address = "relay"
    /\ parse_pc = "idle"
    /\ parse_ret = "invalid_argument"

\* C27: finds returns exactly the fields of its input separated by the
\* delimiter, in order and each once, for every input whose last field is
\* not empty: k occurrences of the delimiter give k + 1 tokens.
C27_FindsSplitsFields ==
    (finds_pc = "idle" /\ delimiter # <<>>
       /\ Fields(orig, delimiter)[Len(Fields(orig, delimiter))] # <<>>)
      => tokens = Fields(orig, delimiter)

\* C24: init returns 0 only with startup, video reset and module loading
\* done, and after a failure code (-2, -3) the backend is not initialized,
\* so that the next init is not answered -1.
C24_InitAllOrNothing ==
    /\ (init_ret = << 0 >>) => (obs.core /\ obs.video /\ obs.modules)
    /\ (init_ret \in { << -2 >>, << -3 >> }) => ~AlreadyInitialized(obs)

\* C25: Start is never called while the capture service is still started
\* from an earlier sender attempt, and the service is not left started when
\* no sender exists: every Start has had its Stop.
C25_StartStopBalanced ==
    /\ ~double_start
    /\ (_sender = 0) => ~capture_running

\* C26: the presentation thread takes no step that reads a member of the
\* Render object (running flag, texture, mutex, renderer) once the object
\* has been deleted.
C26_NoReadAfterDelete ==
    [][ (present_while \/ present_if \/ present_lock \/ present_render)
          => render_alive ]_vars

\* C22: get_device_list returns one description for each item of the
\* video_device_id property, in item order and tagged with the requested
\* type, list.size is the number of entries written, and no entry is
\* written outside the slots allocated for the list.
C22_DeviceListBounded ==
    (request.type # "none") =>
      /\ list.size = Len(list.devices) + list.overrun
      /\ (request.failed = {}) =>
           /\ list.size = request.count
           /\ \A i \in 1 .. Len(list.devices) :
                list.devices[i] = Description(request.type, i - 1)
      /\ list.overrun = 0

\* C23: create_device_manager returns either a manager holding its scene,
\* source and scene item, or NULL after releasing each object it created
\* once; it never releases through a field it has not assigned.
C23_CreateAllOrNothing ==
    /\ (mgr_ret = "manager") =>
         /\ manager.st = "live"
         /\ \A k \in HandleKinds :
              manager[k] = "own" /\ handles[k] = [ created |-> TRUE, released |-> 0 ]
    /\ (mgr_ret = "NULL") =>
         /\ manager.st # "live"
         /\ \A k \in HandleKinds :
              handles[k].released = (IF handles[k].created THEN 1 ELSE 0)
         /\ foreign = {}

====
